---- MODULE Spec2Model ----
(***************************************************************************)
(* Hand-eye calibration data collection (toouki/hand-eye-calibration).     *)
(*                                                                         *)
(* Two front ends share one on-disk layout:                                *)
(*   main.py   HandEyeCalibrationCLI : a command loop on the main thread   *)
(*             and a daemon thread that reads frames and detects the       *)
(*             calibration pattern;                                        *)
(*   UI_QT.py  HandEyeCalibrationUI  : a Qt window, single threaded.       *)
(*                                                                         *)
(* The file system under eye_hand_data/ is modelled as a function from     *)
(* session directory names to directory contents.  A directory name        *)
(* "data" + YYYYMMDD + suffix is the record [date, sfx]; sfx is the        *)
(* sequence of characters after the date, a decimal digit being the        *)
(* number 0..9 and any other character the number NonDigit.                *)
(***************************************************************************)
EXTENDS Integers, Sequences, FiniteSets, TLC

\* ---------------------------------------------------------------- bounds
MaxAllocs == 3      \* session allocations in one behaviour of SpecAlloc
MaxDate == 2        \* days the clock may reach
MaxSamples == 2     \* samples committed in one run
MaxSolverCalls == 2 \* solver invocations in one run
NumRuns == 2        \* program runs started side by side in SpecRace

\* ------------------------------------------------------------ characters
SuffixWidth == 2
Radix == 10
NonDigit == Radix

RECURSIVE Digits(_)
\* The decimal digits of n >= 0, most significant first (str(n)).
Digits(n) == IF n < Radix THEN <<n>> ELSE Append(Digits(n \div Radix), n % Radix)

\* f"{n:02d}": at least two digits, zero padded; wider numbers keep all digits.
FormatSuffix(n) == IF Len(Digits(n)) < SuffixWidth THEN <<0>> \o Digits(n) ELSE Digits(n)

\* str.isdigit() on the suffix
IsDigitStr(s) == Len(s) > 0 /\ \A i \in 1..Len(s) : s[i] \in 0..(Radix - 1)

RECURSIVE ToInt(_)
\* int(suffix) for a string of decimal digits
ToInt(s) == IF Len(s) = 0 THEN 0 ELSE ToInt(SubSeq(s, 1, Len(s) - 1)) * Radix + s[Len(s)]

SetMax(S) == CHOOSE m \in S : \A x \in S : x <= m

\* ----------------------------------------------------------- file system
DirName(d, s) == [date |-> d, sfx |-> s]

\* a directory just created by os.makedirs: no poses.txt, no image, no result
EmptyDir == [has_poses |-> FALSE, poses |-> <<>>, images |-> {}, results |-> {}]

\* open(poses_file, 'w'): create or truncate poses.txt
TruncatePoses(dir) == [dir EXCEPT !.has_poses = TRUE, !.poses = <<>>]

\* the suffix numbers of the entries get_next_save_dir counts for `day`
ExistingNums(names, day) ==
    { ToInt(n.sfx) : n \in { m \in names : /\ m.date = day
                                           /\ Len(m.sfx) = SuffixWidth
                                           /\ IsDigitStr(m.sfx) } }

NextNum(existing) == IF existing # {} THEN SetMax(existing) + 1 ELSE 1

GetNextSaveDir(names, day) == DirName(day, FormatSuffix(NextNum(ExistingNums(names, day))))

\* init_data_storage on the directory listing f: make the directory unless it
\* exists, then create or truncate its poses.txt
InitDataStorage(f, day) ==
    LET d == GetNextSaveDir(DOMAIN f, day)
        old == IF d \in DOMAIN f THEN f[d] ELSE EmptyDir
    IN  [n \in (DOMAIN f) \cup {d} |-> IF n = d THEN TruncatePoses(old) ELSE f[n]]

\* --------------------------------------------------------------- strings
\* Operator input is a sequence of one-character strings.
Space == " "

LowerChar(c) ==
    CASE c = "A" -> "a" [] c = "C" -> "c" [] c = "E" -> "e" [] c = "I" -> "i"
      [] c = "L" -> "l" [] c = "N" -> "n" [] c = "O" -> "o" [] c = "Q" -> "q"
      [] c = "S" -> "s" [] c = "X" -> "x"
      [] OTHER -> c

\* a comparison that keeps the letter case
Lower_Identity(s) == s

\* str.lower()
Lower(s) == [i \in 1..Len(s) |-> LowerChar(s[i])]

RECURSIVE LStrip(_)
LStrip(s) == IF Len(s) > 0 /\ Head(s) = Space THEN LStrip(Tail(s)) ELSE s

RECURSIVE RStrip(_)
RStrip(s) == IF Len(s) > 0 /\ s[Len(s)] = Space THEN RStrip(SubSeq(s, 1, Len(s) - 1)) ELSE s

\* str.strip()
Strip(s) == RStrip(LStrip(s))

RECURSIVE SplitFrom(_, _, _)
\* str.split(): the maximal runs of non-blank characters, in order
SplitFrom(s, cur, acc) ==
    IF Len(s) = 0 THEN (IF Len(cur) > 0 THEN Append(acc, cur) ELSE acc)
    ELSE IF Head(s) = Space
         THEN SplitFrom(Tail(s), <<>>, IF Len(cur) > 0 THEN Append(acc, cur) ELSE acc)
         ELSE SplitFrom(Tail(s), Append(cur, Head(s)), acc)

Split(s) == SplitFrom(s, <<>>, <<>>)

DigitChars == {"0", "1", "2", "3", "4", "5", "6", "7", "8", "9"}

DigitVal(c) ==
    CASE c = "0" -> 0 [] c = "1" -> 1 [] c = "2" -> 2 [] c = "3" -> 3 [] c = "4" -> 4
      [] c = "5" -> 5 [] c = "6" -> 6 [] c = "7" -> 7 [] c = "8" -> 8 [] c = "9" -> 9

Unsigned(tok) == IF Len(tok) > 0 /\ Head(tok) = "-" THEN Tail(tok) ELSE tok

DotAt(u) == { i \in 1..Len(u) : u[i] = "." }

\* float(tok) succeeds.  Covers the decimal notation [-]ddd[.ddd]; the inputs
\* drawn below use no exponent, "inf" or "nan" spelling.
IsFloat(tok) ==
    LET u == Unsigned(tok)
        dots == DotAt(u)
    IN  /\ Len(u) > 0
        /\ Cardinality(dots) <= 1
        /\ \A i \in 1..Len(u) : u[i] \in DigitChars \cup {"."}
        /\ \E i \in 1..Len(u) : u[i] \in DigitChars

RECURSIVE DecVal(_)
DecVal(s) == IF Len(s) = 0 THEN 0 ELSE DecVal(SubSeq(s, 1, Len(s) - 1)) * Radix + DigitVal(s[Len(s)])

\* ----------------------------------------------------------------- poses
PoseArity == 6

\* float(tok) in tenths of the input unit; tok is in decimal notation with at
\* most one fractional digit (all the pose inputs drawn below are).
ParseTenths(tok) ==
    LET u == Unsigned(tok)
        dots == DotAt(u)
        p == IF dots = {} THEN Len(u) + 1 ELSE CHOOSE i \in dots : TRUE
        whole == SubSeq(u, 1, p - 1)
        frac == SubSeq(u, p + 1, Len(u))
        mag == DecVal(whole) * Radix + (IF Len(frac) > 0 THEN DigitVal(frac[1]) ELSE 0)
    IN  IF u = tok THEN mag ELSE 0 - mag

\* x / 1000.0 printed with "%.6f", as an integer number of 10^-6 m (t in 0.1 mm)
MetresMicro(t) == t * 100

\* degrees to radians with the digits after the sixth decimal cut off
RadiansMicro_Truncate(t) ==
    LET a == IF t < 0 THEN 0 - t ELSE t
        B == a * 3292
        frac8 == (B % 10000) * 10000 + a * 5199 + (a * 43) \div 100
        v == a * 1745 + (B \div 10000) + (frac8 \div 100000000)
    IN  IF t < 0 THEN 0 - v ELSE v

\* np.radians(r) printed with "%.6f", as an integer number of 10^-6 rad (t in
\* 0.1 deg): t * 1745.3292519943 rounded to nearest, computed in pieces that
\* stay inside 32 bits.
RadiansMicro(t) ==
    LET a == IF t < 0 THEN 0 - t ELSE t
        B == a * 3292
        frac8 == (B % 10000) * 10000 + a * 5199 + (a * 43) \div 100
        v == a * 1745 + (B \div 10000) + (frac8 \div 100000000)
               + (IF frac8 % 100000000 >= 50000000 THEN 1 ELSE 0)
    IN  IF t < 0 THEN 0 - v ELSE v

\* list(map(float, text.split())) succeeds and has six entries
PoseOK(text) ==
    /\ \A i \in 1..Len(Split(text)) : IsFloat(Split(text)[i])
    /\ Len(Split(text)) = PoseArity

\* the line written to poses.txt for a well-formed pose text
PoseLine(text) ==
    LET tk == Split(text)
    IN  << MetresMicro(ParseTenths(tk[1])), MetresMicro(ParseTenths(tk[2])),
           MetresMicro(ParseTenths(tk[3])), RadiansMicro(ParseTenths(tk[4])),
           RadiansMicro(ParseTenths(tk[5])), RadiansMicro(ParseTenths(tk[6])) >>

\* ---------------------------------------------------- inputs of the model
\* ' '.join(toks)
RECURSIVE Words(_)
Words(toks) == IF Len(toks) = 0 THEN <<>>
              ELSE IF Len(toks) = 1 THEN toks[1]
              ELSE toks[1] \o <<Space>> \o Words(Tail(toks))

GoodPoseA == Words(<< <<"1","0","0",".","5">>, <<"2","0","0",".","3">>, <<"3","0","0",".","0">>,
                     <<"1","0",".","2">>, <<"2","0",".","5">>, <<"3","0",".","1">> >>)
FivePose == Words(<< <<"1">>, <<"2">>, <<"3">>, <<"4">>, <<"5">> >>)
SevenPose == Words(<< <<"1">>, <<"2">>, <<"3">>, <<"4">>, <<"5">>, <<"6">>, <<"7">> >>)
WordPose == Words(<< <<"1">>, <<"2">>, <<"3">>, <<"4">>, <<"5">>, <<"s","i","x">> >>)

CancelInputs == { <<"c","a","n","c","e","l">>, <<"C","A","N","C","E","L">>,
                  <<"C","a","n","c","e","l">>, <<" ","c","a","n","c","e","L"," ">> }
GoodPoseInputs == { GoodPoseA, <<Space>> \o GoodPoseA \o <<Space>> }
BadPoseInputs == { FivePose, SevenPose, WordPose }
EmptyInputs == { <<>>, <<Space, Space>> }
PoseInputs == CancelInputs \cup GoodPoseInputs \cup BadPoseInputs \cup EmptyInputs

CommandInputs == { <<"s">>, <<"S">>, <<" ","s"," ">>, <<"q">>, <<"Q">>, <<"i">>, <<"I">>,
                   <<"o">>, <<"O">>, <<>>, <<Space>>, <<"z">>, <<"s","s">> }

\* ------------------------------------------------------------- the state
VARIABLES
    prog,           \* which front end runs: "cli" (main.py) or "ui" (UI_QT.py)
    today,          \* datetime.now() as a day number
    base_ok,        \* eye_hand_data/ exists
    fs,             \* session directory name -> contents
    allocated,      \* the names get_next_save_dir has returned, in order
    pc,             \* position of the main thread (the command dispatcher)
    apc,            \* position of the camera thread (the acquisition loop)
    running,        \* self.running
    frame,          \* self.frame
    detected,       \* self.detected_chessboard
    capture_count,  \* self.capture_count
    save_dir,       \* self.save_dir
    cap,            \* self.cap: [opened, releases]
    msg,            \* what the current command has reported to the operator
    solver_calls,   \* how many times the calibration solver has been invoked
    capture_active, \* self.capture_active (UI_QT.py)
    runs            \* program runs starting side by side: run -> [pc, dir, count]

vars == << prog, runs, today, base_ok, fs, allocated, pc, apc, running, frame, detected,
           capture_count, save_dir, cap, msg, solver_calls, capture_active >>

runVars == << pc, apc, running, frame, detected, capture_count, save_dir, cap,
              msg, solver_calls, capture_active >>

\* self.frame: None, or a frame; of a frame the model keeps whether the
\* calibration pattern is visible in it
NoFrame == [valid |-> FALSE, pat |-> FALSE]
Frame(p) == [valid |-> TRUE, pat |-> p]
NoDir == DirName(0, <<>>)

\* the program runs that start side by side, and their state while no such
\* run is followed
RunIds == 1..NumRuns
NoRuns == [r \in RunIds |-> [pc |-> "none", dir |-> NoDir, count |-> 0]]

\* a session left by an earlier run: one committed sample
OldSession == [has_poses |-> TRUE, poses |-> << PoseLine(GoodPoseA) >>, images |-> { <<0, Frame(TRUE)>> }, results |-> {}]

\* a session left by an earlier run: two committed samples
LongSession == [has_poses |-> TRUE, poses |-> << PoseLine(GoodPoseA), PoseLine(GoodPoseA) >>,
                images |-> { <<0, Frame(TRUE)>>, <<1, Frame(TRUE)>> }, results |-> {}]

Listing(names) == [n \in names |-> OldSession]

\* -------------------------------------------------- session allocation runs
\* Each Allocate is the start-up of one program run (__init__ calling
\* init_data_storage); between runs the operator may delete session
\* directories and the date may change.
AllocInitSuffixes == {1, 98, 99}
AllocInitNames == { DirName(1, FormatSuffix(n)) : n \in AllocInitSuffixes }
                    \cup { DirName(1, <<0, NonDigit>>) }

InitAlloc ==
    /\ prog = "alloc"
    /\ today = 1
    /\ fs \in { Listing(S) : S \in SUBSET AllocInitNames }
    /\ base_ok = TRUE
    /\ allocated = <<>>
    /\ pc = "init_storage" /\ apc = "idle"
    /\ running = FALSE /\ frame = NoFrame /\ detected = FALSE
    /\ capture_count = 0 /\ save_dir = NoDir
    /\ cap = [opened |-> TRUE, releases |-> 0]
    /\ msg = "none" /\ solver_calls = 0 /\ capture_active = FALSE
    /\ runs = NoRuns

Allocate ==
    /\ Len(allocated) < MaxAllocs
    /\ fs' = InitDataStorage(fs, today)
    /\ base_ok' = TRUE
    /\ save_dir' = GetNextSaveDir(DOMAIN fs, today)
    /\ allocated' = Append(allocated, GetNextSaveDir(DOMAIN fs, today))
    /\ UNCHANGED << prog, runs, today, pc, apc, running, frame, detected, capture_count,
                    cap, msg, solver_calls, capture_active >>

DeleteSession ==
    /\ \E d \in DOMAIN fs : fs' = [n \in (DOMAIN fs) \ {d} |-> fs[n]]
    /\ UNCHANGED << prog, runs, today, base_ok, allocated, runVars >>

NewDay ==
    /\ today < MaxDate
    /\ today' = today + 1
    /\ UNCHANGED << prog, runs, base_ok, fs, allocated, runVars >>

NextAlloc == Allocate \/ DeleteSession \/ NewDay

SpecAlloc == InitAlloc /\ [][NextAlloc]_vars

\* ------------------------------------------------- session directory edits
DirOf(f, d) == IF d \in DOMAIN f THEN f[d] ELSE EmptyDir

ImageAt(dir, idx) == { im \in dir.images : im[1] = idx }

\* cv2.imwrite(save_dir/idx.jpg, frm): writes or overwrites; fails silently
\* when the directory is missing
WriteImage(f, d, idx, frm) ==
    IF d \in DOMAIN f
    THEN [f EXCEPT ![d].images = (@ \ ImageAt(f[d], idx)) \cup { <<idx, frm>> }]
    ELSE f

\* if os.path.exists(image_path): os.remove(image_path)
RemoveImage(f, d, idx) ==
    IF d \in DOMAIN f THEN [f EXCEPT ![d].images = @ \ ImageAt(f[d], idx)] ELSE f

\* with open(poses_file, 'a') as f: f.write(line)
AppendPose(f, d, line) == [f EXCEPT ![d].has_poses = TRUE, ![d].poses = @ \o << line >>]

ImageIndices(dir) == { im[1] : im \in dir.images }
NumImages(dir) == Cardinality(ImageIndices(dir))
NumPoses(dir) == Len(dir.poses)

\* --------------------------------------------------- compute: input checks
\* Names compare as the strings they stand for: the date, then the suffix
\* character by character, a proper prefix first.
RECURSIVE SeqLess(_, _)
SeqLess(a, b) ==
    IF Len(b) = 0 THEN FALSE
    ELSE IF Len(a) = 0 THEN TRUE
    ELSE IF Head(a) # Head(b) THEN Head(a) < Head(b)
    ELSE SeqLess(Tail(a), Tail(b))

NameLess(a, b) == a.date < b.date \/ (a.date = b.date /\ SeqLess(a.sfx, b.sfx))

\* libs.auxiliary.find_latest_data_folder: the greatest name
FindLatestDataFolder(names) == CHOOSE m \in names : \A n \in names : n = m \/ NameLess(n, m)

\* the checks of compute_in_hand / compute_to_hand before the solver runs:
\* the message of the first check that fails, or "ready"
\* checks that stop before the images are counted
ComputeCheck_NoImageTest(baseOk, f) ==
    IF ~baseOk THEN "err_no_basedir"
    ELSE IF DOMAIN f = {} THEN "err_no_folder"
    ELSE IF ~f[FindLatestDataFolder(DOMAIN f)].has_poses THEN "err_no_poses"
    ELSE "ready"

ComputeCheck(baseOk, f) ==
    IF ~baseOk THEN "err_no_basedir"
    ELSE IF DOMAIN f = {} THEN "err_no_folder"
    ELSE IF ~f[FindLatestDataFolder(DOMAIN f)].has_poses THEN "err_no_poses"
    ELSE IF NumImages(f[FindLatestDataFolder(DOMAIN f)]) = 0 THEN "err_no_images"
    ELSE "ready"

\* one result file for both modes, holding the result of the last one
WriteResult_Shared(f, mode) ==
    [f EXCEPT ![FindLatestDataFolder(DOMAIN f)].results = {mode}]

\* with open(result_file, 'w'): eye_in_hand_result.txt / eye_to_hand_result.txt
WriteResult(f, mode) ==
    [f EXCEPT ![FindLatestDataFolder(DOMAIN f)].results = @ \cup {mode}]

\* ------------------------------------------------------- program start-up
\* eye_hand_data/ when the program starts: missing or empty, holding the
\* first session of the day, or holding what a hundred runs on this day have
\* left (the sessions in between do not matter to any step and are left out)
LateListing == [n \in { DirName(1, FormatSuffix(99)), DirName(1, FormatSuffix(100)) } |->
                  IF n = DirName(1, FormatSuffix(99)) THEN OldSession ELSE LongSession]

InitListings == { Listing({}), Listing({ DirName(1, FormatSuffix(1)) }), LateListing }

Init ==
    /\ prog \in {"cli", "ui"}
    /\ today = 1
    /\ fs \in InitListings
    /\ base_ok \in { b \in BOOLEAN : DOMAIN fs # {} => b }
    /\ allocated = <<>>
    /\ pc = "init_camera" /\ apc = "idle"
    /\ running = FALSE /\ frame = NoFrame /\ detected = FALSE
    /\ capture_count = 0 /\ save_dir = NoDir
    /\ cap = [opened |-> FALSE, releases |-> 0]
    /\ msg = "none" /\ solver_calls = 0 /\ capture_active = FALSE
    /\ runs = NoRuns

\* main.py init_camera: sys.exit(1) when the device does not open
InitCamera ==
    /\ prog = "cli" /\ pc = "init_camera"
    /\ \E ok \in BOOLEAN :
         /\ cap' = [cap EXCEPT !.opened = ok]
         /\ pc' = IF ok THEN "init_storage" ELSE "exited"
         /\ msg' = IF ok THEN msg ELSE "err_camera"
    /\ UNCHANGED << prog, runs, today, base_ok, fs, allocated, apc, running, frame, detected,
                    capture_count, save_dir, solver_calls, capture_active >>

\* main.py __init__ lines 16-20: init_data_storage, then the counters and flags
InitStorage ==
    /\ prog = "cli" /\ pc = "init_storage"
    /\ fs' = InitDataStorage(fs, today)
    /\ base_ok' = TRUE
    /\ save_dir' = GetNextSaveDir(DOMAIN fs, today)
    /\ allocated' = Append(allocated, GetNextSaveDir(DOMAIN fs, today))
    /\ capture_count' = 0 /\ frame' = NoFrame /\ detected' = FALSE /\ running' = TRUE
    /\ pc' = "start"
    /\ UNCHANGED << prog, runs, today, apc, cap, msg, solver_calls, capture_active >>

\* init_data_storage raises (the directory cannot be created): __init__ does
\* not return, `calibration` is never bound, and the handler of __main__
\* releases nothing
InitStorageFails ==
    /\ prog = "cli" /\ pc = "init_storage"
    /\ msg' = "err_program"
    /\ pc' = "exited"
    /\ UNCHANGED << prog, runs, today, base_ok, fs, allocated, apc, running, frame, detected,
                    capture_count, save_dir, cap, solver_calls, capture_active >>

\* start_capture: display_thread.start()
StartThread ==
    /\ prog = "cli" /\ pc = "start"
    /\ apc' = "test"
    /\ pc' = "loop_test"
    /\ UNCHANGED << prog, runs, today, base_ok, fs, allocated, running, frame, detected,
                    capture_count, save_dir, cap, msg, solver_calls, capture_active >>

\* display_thread.start() raises: the handler of __main__ clears running and
\* releases the camera
StartThreadFails ==
    /\ prog = "cli" /\ pc = "start"
    /\ running' = FALSE
    /\ cap' = [cap EXCEPT !.releases = @ + 1]
    /\ msg' = "err_program"
    /\ pc' = "exited"
    /\ UNCHANGED << prog, runs, today, base_ok, fs, allocated, apc, frame, detected,
                    capture_count, save_dir, solver_calls, capture_active >>

\* ------------------------------------------------------ acquisition thread
Alive == pc # "exited"

\* while True: a loop that does not look at the stop signal
AcqTest_Forever ==
    /\ prog = "cli" /\ Alive /\ apc = "test"
    /\ apc' = "read"
    /\ UNCHANGED << prog, runs, today, base_ok, fs, allocated, pc, running, frame, detected,
                    capture_count, save_dir, cap, msg, solver_calls, capture_active >>

\* while self.running:
AcqTest ==
    /\ prog = "cli" /\ Alive /\ apc = "test"
    /\ apc' = IF running THEN "read" ELSE "release"
    /\ UNCHANGED << prog, runs, today, base_ok, fs, allocated, pc, running, frame, detected,
                    capture_count, save_dir, cap, msg, solver_calls, capture_active >>

\* ret, frame = self.cap.read(); if ret: self.frame = frame.copy()
AcqRead ==
    /\ prog = "cli" /\ Alive /\ apc = "read"
    /\ \/ /\ \E p \in BOOLEAN : frame' = Frame(p)
          /\ apc' = "detect"
       \/ /\ apc' = "waitkey"
          /\ UNCHANGED frame
    /\ UNCHANGED << prog, runs, today, base_ok, fs, allocated, pc, running, detected,
                    capture_count, save_dir, cap, msg, solver_calls, capture_active >>

\* self.detected_chessboard = ret_corners, then the overlay and cv2.imshow
AcqDetect ==
    /\ prog = "cli" /\ Alive /\ apc = "detect"
    /\ detected' = frame.pat
    /\ apc' = "waitkey"
    /\ UNCHANGED << prog, runs, today, base_ok, fs, allocated, pc, running, frame,
                    capture_count, save_dir, cap, msg, solver_calls, capture_active >>

\* if cv2.waitKey(1) & 0xFF == ord('x'): self.running = False; break
AcqWaitKey ==
    /\ prog = "cli" /\ Alive /\ apc = "waitkey"
    /\ \E x \in BOOLEAN :
         /\ running' = IF x THEN FALSE ELSE running
         /\ apc' = IF x THEN "release" ELSE "test"
    /\ UNCHANGED << prog, runs, today, base_ok, fs, allocated, pc, frame, detected,
                    capture_count, save_dir, cap, msg, solver_calls, capture_active >>

\* self.cap.release(); cv2.destroyAllWindows()
AcqRelease ==
    /\ prog = "cli" /\ Alive /\ apc = "release"
    /\ cap' = [cap EXCEPT !.releases = @ + 1]
    /\ apc' = "ended"
    /\ UNCHANGED << prog, runs, today, base_ok, fs, allocated, pc, running, frame, detected,
                    capture_count, save_dir, msg, solver_calls, capture_active >>

\* ------------------------------------------------------ command dispatcher
CancelToken == <<"c","a","n","c","e","l">>

\* a dispatcher that goes by the first letter of the line
CommandOf_FirstLetter(input) ==
    LET u == Strip(input)
    IN  IF u = <<>> THEN "status"
        ELSE IF Lower(<<u[1]>>) = <<"q">> THEN "quit"
        ELSE IF Lower(<<u[1]>>) = <<"s">> THEN "capture"
        ELSE IF Lower(<<u[1]>>) = <<"i">> THEN "in_hand"
        ELSE IF Lower(<<u[1]>>) = <<"o">> THEN "to_hand"
        ELSE "invalid"

\* the command a line of input stands for: user_input = input(...).strip()
\* compared through .lower(), the empty line compared as typed
CommandOf(input) ==
    LET u == Strip(input)
    IN  IF Lower(u) = <<"q">> THEN "quit"
        ELSE IF Lower(u) = <<"s">> THEN "capture"
        ELSE IF Lower(u) = <<"i">> THEN "in_hand"
        ELSE IF Lower(u) = <<"o">> THEN "to_hand"
        ELSE IF u = <<>> THEN "status"
        ELSE "invalid"

\* what capture_data of main.py does with a line typed at the pose prompt:
\* pose_input = input(...).strip(), then the tests of lines 236, 243, 249-251
PoseKind(input) ==
    LET p == Strip(input)
    IN  IF Lower(p) = CancelToken THEN "cancel"
        ELSE IF p = <<>> THEN "empty"
        ELSE IF PoseOK(p) THEN "pose"
        ELSE "malformed"

\* the two classifications, tabulated over the inputs of the model
CommandKindOf == [i \in CommandInputs |-> CommandOf(i)]
PoseKindOf == [i \in PoseInputs |-> PoseKind(i)]

\* while self.running: (main thread); msg holds what the iteration that now
\* starts has reported
LoopTest ==
    /\ prog = "cli" /\ pc = "loop_test"
    /\ pc' = IF running THEN "await_cmd" ELSE "join"
    /\ msg' = "none"
    /\ UNCHANGED << prog, runs, today, base_ok, fs, allocated, apc, running, frame, detected,
                    capture_count, save_dir, cap, solver_calls, capture_active >>

\* 'q': self.running = False; break
CmdQuit(input) ==
    /\ prog = "cli" /\ pc = "await_cmd"
    /\ CommandKindOf[input] = "quit"
    /\ running' = FALSE
    /\ msg' = "quit"
    /\ pc' = "join"
    /\ UNCHANGED << prog, runs, today, base_ok, fs, allocated, apc, frame, detected,
                    capture_count, save_dir, cap, solver_calls, capture_active >>

\* 's', line 180: if self.frame is None: report and continue
CmdCapture(input) ==
    /\ prog = "cli" /\ pc = "await_cmd"
    /\ CommandKindOf[input] = "capture"
    /\ IF frame = NoFrame
       THEN msg' = "err_no_frame" /\ pc' = "loop_test"
       ELSE msg' = msg /\ pc' = "check_detected"
    /\ UNCHANGED << prog, runs, today, base_ok, fs, allocated, apc, running, frame, detected,
                    capture_count, save_dir, cap, solver_calls, capture_active >>

\* a dispatcher that calls capture_data whatever the detection flag says
CmdCaptureDetected_NoCheck ==
    /\ prog = "cli" /\ pc = "check_detected"
    /\ msg' = msg /\ pc' = "write_image"
    /\ UNCHANGED << prog, runs, today, base_ok, fs, allocated, apc, running, frame, detected,
                    capture_count, save_dir, cap, solver_calls, capture_active >>

\* 's', line 184: if self.detected_chessboard: self.capture_data() else report
CmdCaptureDetected ==
    /\ prog = "cli" /\ pc = "check_detected"
    /\ IF detected
       THEN msg' = msg /\ pc' = "write_image"
       ELSE msg' = "err_no_pattern" /\ pc' = "loop_test"
    /\ UNCHANGED << prog, runs, today, base_ok, fs, allocated, apc, running, frame, detected,
                    capture_count, save_dir, cap, solver_calls, capture_active >>

\* a capture that takes the published frame away once it has saved it
CaptureWrite_TakeFrame ==
    /\ prog = "cli" /\ pc = "write_image"
    /\ fs' = WriteImage(fs, save_dir, capture_count, frame)
    /\ frame' = NoFrame
    /\ msg' = "image_saved"
    /\ pc' = "await_pose"
    /\ UNCHANGED << prog, runs, today, base_ok, allocated, apc, running, detected,
                    capture_count, save_dir, cap, solver_calls, capture_active >>

\* capture_data lines 223-231: cv2.imwrite(save_dir/{capture_count}.jpg, self.frame)
CaptureWrite ==
    /\ prog = "cli" /\ pc = "write_image"
    /\ fs' = WriteImage(fs, save_dir, capture_count, frame)
    /\ msg' = "image_saved"
    /\ pc' = "await_pose"
    /\ UNCHANGED << prog, runs, today, base_ok, allocated, apc, running, frame, detected,
                    capture_count, save_dir, cap, solver_calls, capture_active >>

\* capture_data lines 236-241: 'cancel' removes the image and returns
PoseCancel(input) ==
    /\ prog = "cli" /\ pc = "await_pose"
    /\ PoseKindOf[input] = "cancel"
    /\ fs' = RemoveImage(fs, save_dir, capture_count)
    /\ msg' = "cancelled"
    /\ pc' = "loop_test"
    /\ UNCHANGED << prog, runs, today, base_ok, allocated, apc, running, frame, detected,
                    capture_count, save_dir, cap, solver_calls, capture_active >>

\* capture_data lines 243-245: an empty line is refused and asked again
PoseEmpty(input) ==
    /\ prog = "cli" /\ pc = "await_pose"
    /\ PoseKindOf[input] = "empty"
    /\ msg' = "warn_empty"
    /\ UNCHANGED << prog, runs, today, base_ok, fs, allocated, pc, apc, running, frame, detected,
                    capture_count, save_dir, cap, solver_calls, capture_active >>

\* capture_data lines 247-271: six numbers: append the line, count the sample
PoseCommit(input) ==
    /\ prog = "cli" /\ pc = "await_pose"
    /\ capture_count < MaxSamples
    /\ save_dir \in DOMAIN fs
    /\ PoseKindOf[input] = "pose"
    /\ fs' = AppendPose(fs, save_dir, PoseLine(Strip(input)))
    /\ capture_count' = capture_count + 1
    /\ msg' = "sample_ok"
    /\ pc' = "loop_test"
    /\ UNCHANGED << prog, runs, today, base_ok, allocated, apc, running, frame, detected,
                    save_dir, cap, solver_calls, capture_active >>

\* capture_data line 264 when the session directory is gone: open(.., 'a')
\* raises FileNotFoundError, which start_capture lines 212-214 report
PoseCommitFails(input) ==
    /\ prog = "cli" /\ pc = "await_pose"
    /\ save_dir \notin DOMAIN fs
    /\ PoseKindOf[input] = "pose"
    /\ msg' = "err_op"
    /\ pc' = "loop_test"
    /\ UNCHANGED << prog, runs, today, base_ok, fs, allocated, apc, running, frame, detected,
                    capture_count, save_dir, cap, solver_calls, capture_active >>

\* capture_data lines 273-275: ValueError is reported and the loop asks again
PoseMalformed(input) ==
    /\ prog = "cli" /\ pc = "await_pose"
    /\ PoseKindOf[input] = "malformed"
    /\ msg' = "err_input"
    /\ UNCHANGED << prog, runs, today, base_ok, fs, allocated, pc, apc, running, frame, detected,
                    capture_count, save_dir, cap, solver_calls, capture_active >>

\* KeyboardInterrupt raised by input(), at either prompt: start_capture lines
\* 208-211 clear running and leave the loop
InputInterrupt ==
    /\ prog = "cli" /\ pc \in {"await_cmd", "await_pose"}
    /\ running' = FALSE
    /\ msg' = "interrupted"
    /\ pc' = "join"
    /\ UNCHANGED << prog, runs, today, base_ok, fs, allocated, apc, frame, detected,
                    capture_count, save_dir, cap, solver_calls, capture_active >>

\* any other exception raised by input() (EOFError at end of input), at either
\* prompt: start_capture lines 212-214 report it and continue the loop
InputError ==
    /\ prog = "cli" /\ pc \in {"await_cmd", "await_pose"}
    /\ msg' = "err_op"
    /\ pc' = "loop_test"
    /\ UNCHANGED << prog, runs, today, base_ok, fs, allocated, apc, running, frame, detected,
                    capture_count, save_dir, cap, solver_calls, capture_active >>

\* a compute that opens the result file before the solver has returned
Compute_WriteFirst(input) ==
    /\ prog = "cli" /\ pc = "await_cmd"
    /\ CommandKindOf[input] \in {"in_hand", "to_hand"}
    /\ IF ComputeCheck(base_ok, fs) # "ready"
       THEN /\ msg' = ComputeCheck(base_ok, fs)
            /\ UNCHANGED << fs, solver_calls >>
       ELSE /\ solver_calls < MaxSolverCalls
            /\ solver_calls' = solver_calls + 1
            /\ fs' = WriteResult(fs, CommandKindOf[input])
            /\ \E solved \in BOOLEAN : msg' = IF solved THEN "result_saved" ELSE "err_calc"
    /\ pc' = "loop_test"
    /\ UNCHANGED << prog, runs, today, base_ok, allocated, apc, running, frame, detected,
                    capture_count, save_dir, cap, capture_active >>

\* 'i' / 'o': compute_in_hand / compute_to_hand
Compute(input) ==
    /\ prog = "cli" /\ pc = "await_cmd"
    /\ CommandKindOf[input] \in {"in_hand", "to_hand"}
    /\ IF ComputeCheck(base_ok, fs) # "ready"
       THEN /\ msg' = ComputeCheck(base_ok, fs)
            /\ UNCHANGED << fs, solver_calls >>
       ELSE /\ solver_calls < MaxSolverCalls
            /\ solver_calls' = solver_calls + 1
            /\ \E solved \in BOOLEAN :
                 IF solved
                 THEN fs' = WriteResult(fs, CommandKindOf[input]) /\ msg' = "result_saved"
                 ELSE fs' = fs /\ msg' = "err_calc"
    /\ pc' = "loop_test"
    /\ UNCHANGED << prog, runs, today, base_ok, allocated, apc, running, frame, detected,
                    capture_count, save_dir, cap, capture_active >>

\* the empty line: report the detection flag and the sample count
CmdStatus(input) ==
    /\ prog = "cli" /\ pc = "await_cmd"
    /\ CommandKindOf[input] = "status"
    /\ msg' = "status"
    /\ pc' = "loop_test"
    /\ UNCHANGED << prog, runs, today, base_ok, fs, allocated, apc, running, frame, detected,
                    capture_count, save_dir, cap, solver_calls, capture_active >>

\* anything else: reported as an invalid command
CmdInvalid(input) ==
    /\ prog = "cli" /\ pc = "await_cmd"
    /\ CommandKindOf[input] = "invalid"
    /\ msg' = "invalid"
    /\ pc' = "loop_test"
    /\ UNCHANGED << prog, runs, today, base_ok, fs, allocated, apc, running, frame, detected,
                    capture_count, save_dir, cap, solver_calls, capture_active >>

\* display_thread.join() without a timeout: returns when the thread has ended
Join_Unbounded ==
    /\ prog = "cli" /\ pc = "join" /\ apc = "ended"
    /\ msg' = "exit"
    /\ pc' = "done"
    /\ UNCHANGED << prog, runs, today, base_ok, fs, allocated, apc, running, frame, detected,
                    capture_count, save_dir, cap, solver_calls, capture_active >>

\* display_thread.join(timeout=2.0): returns when the thread has ended, and
\* after two seconds whether it has or not
Join ==
    /\ prog = "cli" /\ pc = "join"
    /\ msg' = "exit"
    /\ pc' = "done"
    /\ UNCHANGED << prog, runs, today, base_ok, fs, allocated, apc, running, frame, detected,
                    capture_count, save_dir, cap, solver_calls, capture_active >>

\* the main thread returns: the process ends and a daemon thread still
\* running ends with it
ProcessExit ==
    /\ prog = "cli" /\ pc = "done"
    /\ pc' = "exited"
    /\ apc' = IF apc = "ended" THEN "ended" ELSE "killed"
    /\ UNCHANGED << prog, runs, today, base_ok, fs, allocated, running, frame, detected,
                    capture_count, save_dir, cap, msg, solver_calls, capture_active >>

\* ------------------------------------------------------- UI_QT.py handlers
\* init_camera: a message box and self.close() when the device does not open
\* (closeEvent releases the capture object); __init__ goes on
UIInitCamera ==
    /\ prog = "ui" /\ pc = "init_camera"
    /\ \E ok \in BOOLEAN :
         /\ cap' = [opened |-> ok, releases |-> IF ok THEN cap.releases ELSE cap.releases + 1]
         /\ msg' = IF ok THEN msg ELSE "err_camera"
    /\ pc' = "init_storage"
    /\ UNCHANGED << prog, runs, today, base_ok, fs, allocated, apc, running, frame, detected,
                    capture_count, save_dir, solver_calls, capture_active >>

\* init_data_storage, the last step of __init__; then window.show()
UIInitStorage ==
    /\ prog = "ui" /\ pc = "init_storage"
    /\ fs' = InitDataStorage(fs, today)
    /\ base_ok' = TRUE
    /\ save_dir' = GetNextSaveDir(DOMAIN fs, today)
    /\ allocated' = Append(allocated, GetNextSaveDir(DOMAIN fs, today))
    /\ msg' = "dir_created"
    /\ pc' = "await_cmd"
    /\ UNCHANGED << prog, runs, today, apc, running, frame, detected, capture_count, cap,
                    solver_calls, capture_active >>

\* init_data_storage raises: nothing catches it and the program ends
UIInitStorageFails ==
    /\ prog = "ui" /\ pc = "init_storage"
    /\ msg' = "err_program"
    /\ pc' = "exited"
    /\ UNCHANGED << prog, runs, today, base_ok, fs, allocated, apc, running, frame, detected,
                    capture_count, save_dir, cap, solver_calls, capture_active >>

\* start_capture / stop_capture: the two buttons, each enabled in turn
UIStartStop ==
    /\ prog = "ui" /\ pc = "await_cmd"
    /\ capture_active' = ~capture_active
    /\ msg' = IF capture_active THEN "stopped" ELSE "started"
    /\ UNCHANGED << prog, runs, today, base_ok, fs, allocated, pc, apc, running, frame, detected,
                    capture_count, save_dir, cap, solver_calls >>

CameraDelivers == cap.opened /\ cap.releases = 0

\* update_frame, on the timer that runs while capture is active: the status
\* label follows the detection; a failed read changes nothing
UIUpdateFrame ==
    /\ prog = "ui" /\ pc \in {"await_cmd", "await_pose"} /\ capture_active
    /\ \E ret \in { r \in BOOLEAN : r => CameraDelivers }, p \in BOOLEAN :
         msg' = IF ret THEN (IF p THEN "label_detected" ELSE "label_not_detected") ELSE msg
    /\ UNCHANGED << prog, runs, today, base_ok, fs, allocated, pc, apc, running, frame, detected,
                    capture_count, save_dir, cap, solver_calls, capture_active >>

\* keyPressEvent Key_S while capture is active: capture_data lines 216-239,
\* up to the pose dialog
\* ret: cap.read() delivers a frame; p: findChessboardCorners finds the pattern
UICapture(ret, p) ==
    /\ prog = "ui" /\ pc = "await_cmd" /\ capture_active
    /\ ret => CameraDelivers
    /\ IF ~ret THEN msg' = "err_no_frame" /\ pc' = pc /\ fs' = fs
       ELSE IF ~p THEN msg' = "err_no_pattern" /\ pc' = pc /\ fs' = fs
       ELSE /\ fs' = WriteImage(fs, save_dir, capture_count, Frame(p))
            /\ msg' = "image_saved"
            /\ pc' = "await_pose"
    /\ UNCHANGED << prog, runs, today, base_ok, allocated, apc, running, frame, detected,
                    capture_count, save_dir, cap, solver_calls, capture_active >>

\* pose_str.split() parses as six numbers (the text is not stripped first),
\* tabulated over the inputs of the model
UIPoseOKOf == [i \in PoseInputs |-> PoseOK(i)]

\* capture_data lines 241-264: the dialog is accepted with six numbers
UIDialogCommit(text) ==
    /\ prog = "ui" /\ pc = "await_pose"
    /\ capture_count < MaxSamples
    /\ text # <<>> /\ UIPoseOKOf[text]
    /\ fs' = AppendPose(fs, save_dir, PoseLine(text))
    /\ capture_count' = capture_count + 1
    /\ msg' = "sample_ok"
    /\ pc' = "await_cmd"
    /\ UNCHANGED << prog, runs, today, base_ok, allocated, apc, running, frame, detected,
                    save_dir, cap, solver_calls, capture_active >>

\* capture_data lines 266-274: the dialog is dismissed (ok is False), left
\* empty, or accepted with a text that is not six numbers: the image is removed
UIDialogReject(ok, text) ==
    /\ prog = "ui" /\ pc = "await_pose"
    /\ ~(ok /\ text # <<>> /\ UIPoseOKOf[text])
    /\ fs' = RemoveImage(fs, save_dir, capture_count)
    /\ msg' = IF ok /\ text # <<>> THEN "err_input" ELSE "none"
    /\ pc' = "await_cmd"
    /\ UNCHANGED << prog, runs, today, base_ok, allocated, apc, running, frame, detected,
                    capture_count, save_dir, cap, solver_calls, capture_active >>

\* choose_save_dir: the directory picked becomes the session directory and its
\* poses.txt is created or emptied
UIChooseSaveDir(d) ==
    /\ prog = "ui" /\ pc = "await_cmd"
    /\ d \in DOMAIN fs
    /\ save_dir' = d
    /\ fs' = [fs EXCEPT ![d] = TruncatePoses(@)]
    /\ msg' = "dir_set"
    /\ UNCHANGED << prog, runs, today, base_ok, allocated, pc, apc, running, frame, detected,
                    capture_count, cap, solver_calls, capture_active >>

\* keyPressEvent Key_Q: self.close(); closeEvent releases the camera
UIQuit ==
    /\ prog = "ui" /\ pc = "await_cmd"
    /\ cap' = [cap EXCEPT !.releases = @ + 1]
    /\ pc' = "exited"
    /\ UNCHANGED << prog, runs, today, base_ok, fs, allocated, apc, running, frame, detected,
                    capture_count, save_dir, msg, solver_calls, capture_active >>

\* ------------------------------------------------------- the specification
Next ==
    \/ InitCamera \/ InitStorage \/ InitStorageFails \/ StartThread \/ StartThreadFails
    \/ AcqTest \/ AcqRead \/ AcqDetect \/ AcqWaitKey \/ AcqRelease
    \/ LoopTest \/ CmdCaptureDetected \/ CaptureWrite
    \/ \E input \in CommandInputs :
         \/ CmdQuit(input) \/ CmdCapture(input) \/ Compute(input)
         \/ CmdStatus(input) \/ CmdInvalid(input)
    \/ \E input \in PoseInputs :
         \/ PoseCancel(input) \/ PoseEmpty(input) \/ PoseCommit(input) \/ PoseMalformed(input)
    \/ InputInterrupt \/ InputError
    \/ Join \/ ProcessExit
    \/ UIInitCamera \/ UIInitStorage \/ UIInitStorageFails \/ UIStartStop \/ UIUpdateFrame
    \/ (\E ret \in BOOLEAN, p \in BOOLEAN : UICapture(ret, p)) \/ UIQuit
    \/ \E text \in PoseInputs : UIDialogCommit(text) \/ (\E ok \in BOOLEAN : UIDialogReject(ok, text))
    \/ \E d \in DOMAIN fs : UIChooseSaveDir(d)

Spec == Init /\ [][Next]_vars

\* The main thread is not held up once the command loop has ended: join
\* returns within its timeout and start_capture returns.  Nothing is assumed
\* of the camera thread, which may stay in cap.read() for ever.
SpecQuit == Spec /\ WF_vars(Join) /\ WF_vars(ProcessExit)

\* The camera thread is scheduled fairly and each of its calls returns
\* (cap.read, findChessboardCorners, waitKey, release).
SpecAcq ==
    /\ Spec
    /\ WF_vars(AcqTest) /\ WF_vars(AcqRead) /\ WF_vars(AcqDetect)
    /\ WF_vars(AcqWaitKey) /\ WF_vars(AcqRelease)

\* Runs in which every capture that is accepted is completed by a well-formed
\* pose: the same program with the operator never cancelling, never typing a
\* malformed or empty pose, never interrupting, quitting, computing or picking
\* another directory.
NextCapture ==
    \/ InitCamera \/ InitStorage \/ StartThread
    \/ AcqTest \/ AcqRead \/ AcqDetect \/ AcqWaitKey \/ AcqRelease
    \/ LoopTest \/ CmdCaptureDetected \/ CaptureWrite
    \/ \E input \in CommandInputs :
         \/ CmdCapture(input) \/ CmdStatus(input) \/ CmdInvalid(input)
    \/ \E input \in PoseInputs : PoseCommit(input)
    \/ UIInitCamera \/ UIInitStorage \/ UIStartStop \/ UIUpdateFrame
    \/ \E ret \in BOOLEAN, p \in BOOLEAN : UICapture(ret, p)
    \/ \E text \in PoseInputs : UIDialogCommit(text)

SpecCapture == Init /\ [][NextCapture]_vars

\* ------------------------------------------ the data directory under change
\* main.py while eye_hand_data/ is changed from outside the program: compute
\* looks the directory up again at every command (lines 285, 293, 304, 309).
NoListing == Listing({})

\* eye_hand_data/ is removed with all it holds
EnvRemoveBaseDir ==
    /\ prog = "cli" /\ pc = "await_cmd" /\ base_ok
    /\ base_ok' = FALSE
    /\ fs' = NoListing
    /\ UNCHANGED << prog, runs, today, allocated, runVars >>

\* every session directory is removed, eye_hand_data/ stays
EnvRemoveSessions ==
    /\ prog = "cli" /\ pc = "await_cmd" /\ base_ok /\ DOMAIN fs # {}
    /\ fs' = NoListing
    /\ UNCHANGED << prog, runs, today, base_ok, allocated, runVars >>

\* poses.txt of the latest session is removed
EnvRemovePoses ==
    /\ prog = "cli" /\ pc = "await_cmd" /\ base_ok /\ DOMAIN fs # {}
    /\ fs[FindLatestDataFolder(DOMAIN fs)].has_poses
    /\ fs' = [fs EXCEPT ![FindLatestDataFolder(DOMAIN fs)].has_poses = FALSE,
                        ![FindLatestDataFolder(DOMAIN fs)].poses = <<>>]
    /\ UNCHANGED << prog, runs, today, base_ok, allocated, runVars >>

InitCompute == Init /\ prog = "cli"

\* the steps of main.py up to the end of the command loop
NextCompute ==
    \/ InitCamera \/ InitStorage \/ StartThread
    \/ AcqTest \/ AcqRead \/ AcqDetect \/ AcqWaitKey \/ AcqRelease
    \/ LoopTest \/ CmdCaptureDetected \/ CaptureWrite
    \/ \E input \in CommandInputs :
         \/ CmdCapture(input) \/ Compute(input)
         \/ CmdStatus(input) \/ CmdInvalid(input)
    \/ \E input \in PoseInputs :
         \/ PoseCancel(input) \/ PoseEmpty(input) \/ PoseCommit(input)
         \/ PoseCommitFails(input) \/ PoseMalformed(input)
    \/ InputError
    \/ EnvRemoveBaseDir \/ EnvRemoveSessions \/ EnvRemovePoses

SpecCompute == InitCompute /\ [][NextCompute]_vars

\* ------------------------------------------------ runs starting side by side
\* NumRuns runs of the program start under the same eye_hand_data/ on the
\* same day.  Each run goes through get_next_save_dir and init_data_storage
\* one system call at a time, and a run that has its session may commit
\* samples to it.
RaceListings == { Listing({}), Listing({ DirName(1, FormatSuffix(1)) }) }

InitRace ==
    /\ prog = "race"
    /\ today = 1
    /\ fs \in RaceListings
    /\ base_ok \in { b \in BOOLEAN : DOMAIN fs # {} => b }
    /\ allocated = <<>>
    /\ pc = "init_storage" /\ apc = "idle"
    /\ running = FALSE /\ frame = NoFrame /\ detected = FALSE
    /\ capture_count = 0 /\ save_dir = NoDir
    /\ cap = [opened |-> TRUE, releases |-> 0]
    /\ msg = "none" /\ solver_calls = 0 /\ capture_active = FALSE
    /\ runs = [r \in RunIds |-> [pc |-> "scan", dir |-> NoDir, count |-> 0]]

\* get_next_save_dir: makedirs(base_dir) if missing, one os.listdir, the name
RunScan(r) ==
    /\ runs[r].pc = "scan"
    /\ base_ok' = TRUE
    /\ allocated' = Append(allocated, GetNextSaveDir(DOMAIN fs, today))
    /\ runs' = [runs EXCEPT ![r].pc = "exists", ![r].dir = GetNextSaveDir(DOMAIN fs, today)]
    /\ UNCHANGED << prog, today, fs, runVars >>

\* init_data_storage: if not os.path.exists(self.save_dir):
RunExists(r) ==
    /\ runs[r].pc = "exists"
    /\ runs' = [runs EXCEPT ![r].pc = IF runs[r].dir \in DOMAIN fs THEN "open" ELSE "makedirs"]
    /\ UNCHANGED << prog, today, base_ok, fs, allocated, runVars >>

\* os.makedirs(self.save_dir): FileExistsError when the directory has appeared
\* since the test, and the run ends in __init__
RunMakeDirs(r) ==
    /\ runs[r].pc = "makedirs"
    /\ IF runs[r].dir \in DOMAIN fs
       THEN /\ fs' = fs
            /\ runs' = [runs EXCEPT ![r].pc = "failed"]
       ELSE /\ fs' = [n \in (DOMAIN fs) \cup {runs[r].dir} |->
                        IF n = runs[r].dir THEN EmptyDir ELSE fs[n]]
            /\ runs' = [runs EXCEPT ![r].pc = "open"]
    /\ UNCHANGED << prog, today, base_ok, allocated, runVars >>

\* with open(self.poses_file, 'w'): poses.txt is created or emptied; the run
\* then has its session
RunOpen(r) ==
    /\ runs[r].pc = "open"
    /\ fs' = [fs EXCEPT ![runs[r].dir] = TruncatePoses(@)]
    /\ runs' = [runs EXCEPT ![r].pc = "ready"]
    /\ UNCHANGED << prog, today, base_ok, allocated, runVars >>

\* a capture of the run, accepted and completed by a well-formed pose:
\* capture_data lines 223-224 and 264-267
RunCapture(r) ==
    /\ runs[r].pc = "ready"
    /\ runs[r].count < MaxSamples
    /\ fs' = AppendPose(WriteImage(fs, runs[r].dir, runs[r].count, Frame(TRUE)),
                        runs[r].dir, PoseLine(GoodPoseA))
    /\ runs' = [runs EXCEPT ![r].count = @ + 1]
    /\ UNCHANGED << prog, today, base_ok, allocated, runVars >>

NextRace ==
    \E r \in RunIds :
        RunScan(r) \/ RunExists(r) \/ RunMakeDirs(r) \/ RunOpen(r) \/ RunCapture(r)

SpecRace == InitRace /\ [][NextRace]_vars

\* ================================================================= claims
Own == DirOf(fs, save_dir)
AwaitingCommandStates == {"loop_test", "await_cmd"}
AwaitingCommand == pc \in AwaitingCommandStates
AwaitingPoseInput == pc = "await_pose"

\* the name an allocation step has just returned
Allocating == Len(allocated') = Len(allocated) + 1
NewName == allocated'[Len(allocated')]
TwoDigits(n) == Len(n.sfx) = SuffixWidth /\ IsDigitStr(n.sfx)
SessionsOn(f, day) == { d \in DOMAIN f : d.date = day /\ IsDigitStr(d.sfx) }

\* the session directory after the step
OwnNext == DirOf(fs', save_dir')
PosesKept == \A d \in DOMAIN fs : d \in DOMAIN fs' /\ fs'[d].poses = fs[d].poses

\* ---------------------------------------------------------------------- C1
\* C1: after N captures, each accepted and each completed by a well-formed
\* pose, among any number of status, invalid and rejected capture commands,
\* the session directory holds exactly the images 0..N-1, the pose log has
\* exactly N lines and sample_index is N.  (In SpecCapture every accepted
\* capture is completed, so N is capture_count whenever a command is awaited.)
C1_CapturesLeaveNSamples ==
    (AwaitingCommand /\ save_dir \in DOMAIN fs) =>
        /\ ImageIndices(Own) = 0..(capture_count - 1)
        /\ NumPoses(Own) = capture_count

\* ---------------------------------------------------------------------- C2
\* C2: in every reachable state, AwaitingPoseInput included, the session
\* directory holds as many images as its pose log has lines.
C2_ImagesEqualLines ==
    save_dir \in DOMAIN fs => NumImages(Own) = NumPoses(Own)

\* ---------------------------------------------------------------------- C3
\* C3: whatever the dispatcher does with a cancel token (any letter case)
\* entered while a capture is in progress, afterwards the tentative image is
\* gone, no pose log has changed, sample_index has its old value and the
\* dispatcher awaits a command; earlier malformed inputs make no difference.
PoseStepOn(input) ==
    \/ PoseCancel(input) \/ PoseEmpty(input) \/ PoseCommit(input) \/ PoseMalformed(input)
    \/ UIDialogCommit(input) \/ UIDialogReject(TRUE, input)

C3_CancelRollsBack ==
    [][\A input \in CancelInputs :
          PoseStepOn(input) =>
              /\ ImageAt(OwnNext, capture_count) = {}
              /\ PosesKept
              /\ capture_count' = capture_count
              /\ pc' \in AwaitingCommandStates]_vars

\* a cancelled capture of the second sample, its image removed
C3_Cancelled ==
    /\ prog = "cli" /\ msg = "cancelled" /\ pc = "loop_test"
    /\ capture_count = 1 /\ NumPoses(Own) = 1
    /\ ImageAt(Own, capture_count) = {}

\* ---------------------------------------------------------------------- C4
\* C4: a malformed pose (not six tokens, or a token that is not a number)
\* leaves sample_index and the pose logs as they were, deletes the tentative
\* image and leaves the dispatcher in AwaitingPoseInput.
C4_MalformedPoseRetry ==
    [][\A input \in BadPoseInputs :
          PoseStepOn(input) =>
              /\ capture_count' = capture_count
              /\ PosesKept
              /\ ImageAt(OwnNext, capture_count) = {}
              /\ pc' = "await_pose"]_vars

\* ---------------------------------------------------------------------- C5
\* C5: whenever a capture ends without a pose line having been written
\* (cancel, KeyboardInterrupt, an input error, exit), the tentative image no
\* longer exists.
C5_CaptureReversible ==
    [][(AwaitingPoseInput /\ pc' # "await_pose" /\ NumPoses(OwnNext) = NumPoses(Own)) =>
          ImageAt(OwnNext, capture_count) = {}]_vars

\* ---------------------------------------------------------------------- C6
\* C6: a capture command met by no published frame, or by a detection flag
\* that reports no pattern when the dispatcher reads it, is reported as an
\* error and changes nothing: no file, no pose log, no sample_index, and the
\* dispatcher goes on awaiting commands.
Rejected(report) ==
    /\ msg' = report
    /\ fs' = fs /\ capture_count' = capture_count
    /\ pc' \in AwaitingCommandStates

C6_RejectedCaptureNoEffect ==
    [][/\ \A input \in CommandInputs :
            (CmdCapture(input) /\ frame = NoFrame) => Rejected("err_no_frame")
       /\ (prog = "cli" /\ pc = "check_detected" /\ pc' # pc /\ ~detected)
            => Rejected("err_no_pattern")
       /\ \A p \in BOOLEAN : UICapture(FALSE, p) => Rejected("err_no_frame")
       /\ UICapture(TRUE, FALSE) => Rejected("err_no_pattern")]_vars

\* a capture command just refused for want of a pattern, a frame being there
C6_RefusedNoPattern ==
    /\ prog = "cli" /\ pc = "loop_test" /\ msg = "err_no_pattern"
    /\ frame # NoFrame /\ NumImages(Own) = 0 /\ capture_count = 0

\* ---------------------------------------------------------------------- C7
\* C7: every allocation returns a two-digit suffix greater than every suffix
\* that exists for its date, and the suffix 01 on a date that has no session
\* yet, whatever exists for other dates.
C7_IncreasingSuffixes ==
    [][Allocating =>
         /\ TwoDigits(NewName)
         /\ \A d \in SessionsOn(fs, NewName.date) : ToInt(d.sfx) < ToInt(NewName.sfx)
         /\ (SessionsOn(fs, NewName.date) = {} => NewName.sfx = <<0, 1>>)]_vars

\* ---------------------------------------------------------------------- C8
\* C8: a suffix is never reused on the same date: of two allocations on one
\* date the later one gets the greater suffix, also when session directories
\* were deleted in between (stated for the names in two-digit format).
C8_SuffixNeverReused ==
    \A i \in DOMAIN allocated : \A j \in DOMAIN allocated :
        (i < j /\ allocated[i].date = allocated[j].date
               /\ TwoDigits(allocated[i]) /\ TwoDigits(allocated[j]))
            => ToInt(allocated[i].sfx) < ToInt(allocated[j].sfx)

\* ---------------------------------------------------------------------- C9
\* C9: every allocated name ends in a two-digit suffix 01..99; no allocation
\* returns a directory that already exists or empties the pose log of an
\* existing session.
C9_TwoDigitBound ==
    [][Allocating =>
         /\ TwoDigits(NewName) /\ ToInt(NewName.sfx) >= 1
         /\ NewName \notin DOMAIN fs
         /\ \A d \in DOMAIN fs : fs'[d].poses = fs[d].poses]_vars

\* --------------------------------------------------------------------- C10
\* C10: the solver is invoked only when the session compute has located holds
\* a pose log with at least one line and at least one image.
C10_SolverNeedsSamples ==
    [][solver_calls' > solver_calls =>
          /\ NumPoses(fs[FindLatestDataFolder(DOMAIN fs)]) > 0
          /\ NumImages(fs[FindLatestDataFolder(DOMAIN fs)]) >= 1]_vars

\* --------------------------------------------------------------------- C11
\* the session compute locates, and the reports of a compute that has failed
Located == fs[FindLatestDataFolder(DOMAIN fs)]
SessionFound == base_ok /\ DOMAIN fs # {}
InputErrors == {"err_no_basedir", "err_no_folder", "err_no_poses", "err_no_images"}

\* C11: compute_in_hand / compute_to_hand on a session without image files
\* reports an error, does not call the solver, writes no result file and
\* returns to the command prompt.
C11_NoImagesNoSolve ==
    [][\A input \in CommandInputs :
          (pc = "await_cmd" /\ SessionFound /\ NumImages(Located) = 0 /\ Compute(input)) =>
              /\ msg' \in InputErrors
              /\ solver_calls' = solver_calls
              /\ fs' = fs
              /\ pc' \in AwaitingCommandStates]_vars

\* a compute just refused on a session with a pose log and no image
C11_RefusedNoImages ==
    /\ prog = "cli" /\ pc = "loop_test" /\ msg = "err_no_images"
    /\ SessionFound /\ NumImages(Located) = 0 /\ Located.results = {}
    /\ solver_calls = 0

\* --------------------------------------------------------------------- C12
\* C12: a compute command that does not save a result has reported why (base
\* directory missing, no session, no pose log, no image, solver exception)
\* and has left every file, sample_index and the stop signal as they were;
\* the dispatcher goes on awaiting commands.
ComputeFailures == InputErrors \cup {"err_calc"}

C12_FailedComputeKeepsState ==
    [][\A input \in CommandInputs :
          (pc = "await_cmd" /\ Compute(input) /\ msg' # "result_saved") =>
              /\ msg' \in ComputeFailures
              /\ fs' = fs /\ base_ok' = base_ok
              /\ capture_count' = capture_count /\ running' = running
              /\ pc' \in AwaitingCommandStates]_vars

\* the solver has raised on a session that holds a sample and no result
C12_SolverRaised ==
    /\ pc = "loop_test" /\ msg = "err_calc" /\ running
    /\ SessionFound /\ NumImages(Located) = 1 /\ NumPoses(Located) = 1
    /\ Located.results = {}

\* --------------------------------------------------------------------- C13
\* C13: a compute that succeeds writes the result file of its own mode and no
\* other: the result file of the other mode, if there is one, stays, and no
\* image, pose log, directory or sample_index changes.
SamplesKept ==
    /\ DOMAIN fs' = DOMAIN fs
    /\ \A d \in DOMAIN fs : /\ fs'[d].images = fs[d].images
                             /\ fs'[d].poses = fs[d].poses
                             /\ fs'[d].has_poses = fs[d].has_poses

C13_ResultFilesCoexist ==
    [][\A input \in CommandInputs :
          (pc = "await_cmd" /\ Compute(input) /\ msg' = "result_saved") =>
              /\ SamplesKept
              /\ capture_count' = capture_count
              /\ \A d \in DOMAIN fs :
                    fs'[d].results = IF d = FindLatestDataFolder(DOMAIN fs)
                                     THEN fs[d].results \cup {CommandKindOf[input]}
                                     ELSE fs[d].results]_vars

\* both result files side by side in a session with its sample
C13_BothResults ==
    /\ pc = "loop_test" /\ msg = "result_saved"
    /\ SessionFound /\ Located.results = {"in_hand", "to_hand"}
    /\ NumImages(Located) = 1 /\ NumPoses(Located) = 1

\* --------------------------------------------------------------------- C14
\* C14: at the command prompt an empty line and a token that is no command
\* are reported (as status, as invalid) and change nothing else: no file,
\* no counter, no stop signal, neither thread's data; the dispatcher still
\* awaits commands.
StatusInputs == { <<>>, <<Space>> }
InvalidInputs == { <<"z">>, <<"s","s">> }

CommandStepOn(input) ==
    \/ CmdQuit(input) \/ CmdCapture(input) \/ Compute(input)
    \/ CmdStatus(input) \/ CmdInvalid(input)

NoEffect ==
    /\ pc' \in AwaitingCommandStates
    /\ UNCHANGED << prog, runs, today, base_ok, fs, allocated, apc, running, frame, detected,
                    capture_count, save_dir, cap, solver_calls, capture_active >>

C14_StatusAndInvalidNoEffect ==
    [][/\ \A input \in StatusInputs :
            (pc = "await_cmd" /\ CommandStepOn(input)) => (msg' = "status" /\ NoEffect)
       /\ \A input \in InvalidInputs :
            (pc = "await_cmd" /\ CommandStepOn(input)) => (msg' = "invalid" /\ NoEffect)]_vars

\* an invalid token just reported in a session that holds a sample
C14_InvalidReported ==
    /\ prog = "cli" /\ pc = "loop_test" /\ msg = "invalid" /\ running
    /\ capture_count = 1 /\ NumImages(Own) = 1 /\ NumPoses(Own) = 1

\* --------------------------------------------------------------------- C15
\* C15: quit sets the stop signal and ends the command loop; from then on no
\* command is accepted, and the program terminates after the bounded wait
\* whether or not the camera thread ever ends.
QuitInputs == { <<"q">>, <<"Q">> }
LoopEnded == {"join", "done", "exited"}

C15_QuitTerminates ==
    /\ [][\A input \in QuitInputs :
            (pc = "await_cmd" /\ CommandStepOn(input)) => (~running' /\ pc' \in LoopEnded)]_vars
    /\ [][(pc \in LoopEnded) => (pc' \in LoopEnded)]_vars
    /\ (pc = "join" /\ msg = "quit") ~> (pc = "exited")

\* quit has been entered while the camera thread is inside cap.read()
C15_QuitDuringRead ==
    /\ prog = "cli" /\ pc = "join" /\ msg = "quit" /\ ~running /\ apc = "read"

\* --------------------------------------------------------------------- C16
\* C16: when the program has ended and the camera had been opened, the
\* camera has been released exactly once.
C16_ReleasedExactlyOnce ==
    (pc = "exited" /\ cap.opened) => cap.releases = 1

\* --------------------------------------------------------------------- C17
\* C17: once the stop signal is set while the camera thread is in its loop,
\* the thread comes to an end; it begins a frame read only straight after a
\* loop test that found the signal clear, and a loop test that finds it set
\* leaves the loop, so that at most the iteration under way is completed.
InLoop == {"test", "read", "detect", "waitkey"}
AcqOver == {"release", "ended", "killed"}

C17_AcquisitionStops ==
    /\ [][(apc = "test" /\ ~running /\ apc' # apc) => (apc' \in AcqOver)]_vars
    /\ [][(apc' = "read" /\ apc # "read") => (apc = "test" /\ running)]_vars
    /\ (prog = "cli" /\ apc \in InLoop /\ ~running) ~> (apc \in {"ended", "killed"})

\* the camera thread has ended after quit while the main thread still waits
C17_ThreadEnded ==
    /\ prog = "cli" /\ pc = "join" /\ msg = "quit" /\ ~running
    /\ apc = "ended" /\ cap.releases = 1

\* --------------------------------------------------------------------- C18
\* C18: a frame read that fails ends the acquisition loop and publishes
\* nothing.  A thread that is past its read while self.frame is still None
\* has had every read fail: its next step leaves the loop; and the step of a
\* failed read changes neither the frame nor the detection flag.
C18_ReadFailureStops ==
    [][/\ (apc = "waitkey" /\ frame = NoFrame /\ apc' # apc) => (apc' \in AcqOver)
       /\ (apc = "read" /\ apc' = "waitkey") => (frame' = frame /\ detected' = detected)]_vars

\* --------------------------------------------------------------------- C19
\* C19: once the camera has failed to open, no session directory is ever
\* allocated, the acquisition loop is never entered and no command is
\* awaited.
CameraFailed == pc # "init_camera" /\ ~cap.opened

C19_CameraFailureFatal ==
    CameraFailed =>
        /\ allocated = <<>> /\ save_dir = NoDir
        /\ apc = "idle" /\ ~capture_active
        /\ ~AwaitingCommand /\ ~AwaitingPoseInput

\* --------------------------------------------------------------------- C20
\* the pose of the example, 100.5 200.3 300.0 10.2 20.5 30.1, however spaced
ExamplePoseInputs == GoodPoseInputs
CommitOn(input) == pc = "await_pose" /\ (PoseCommit(input) \/ UIDialogCommit(input))
LastLine == OwnNext.poses[Len(OwnNext.poses)]

\* C20 as stated: the example pose is recorded as
\* 0.100500,0.200300,0.300000,0.178023,0.357792,0.525466.
C20_ExampleAsStated ==
    [][\A input \in ExamplePoseInputs :
          CommitOn(input) =>
              LastLine = << 100500, 200300, 300000, 178023, 357792, 525466 >>]_vars

\* C20: translations are divided by 1000, rotations converted from degrees
\* to radians, all written with six decimals rounded to nearest: the example
\* pose is recorded as 0.100500,0.200300,0.300000,0.178024,0.357792,0.525344
\* by either front end, as one more line of the pose log.
C20_ExampleRecorded ==
    [][\A input \in ExamplePoseInputs :
          CommitOn(input) =>
              /\ LastLine = << 100500, 200300, 300000, 178024, 357792, 525344 >>
              /\ NumPoses(OwnNext) = NumPoses(Own) + 1]_vars

\* the example pose has just been recorded as the first line of a session
C20_ExampleInLog ==
    /\ msg = "sample_ok" /\ capture_count = 1 /\ NumPoses(Own) = 1
    /\ Own.poses[1] = << 100500, 200300, 300000, 178024, 357792, 525344 >>

\* --------------------------------------------------------------------- C21
\* C21: under every interleaving of the acquisition loop and the dispatcher,
\* the frame an accepted capture saves as {sample_index}.jpg is a frame in
\* which the pattern was detected: the flag the dispatcher tested belongs to
\* the frame that is saved.
ImageSaved == pc # "await_pose" /\ pc' = "await_pose"

C21_SavedFrameHasPattern ==
    [][ImageSaved => \A im \in ImageAt(OwnNext, capture_count) : im[2].pat]_vars

\* --------------------------------------------------------------------- C22
\* C22: sample_index equals the number of lines in the pose log of the
\* session currently written to, after every sequence of captures, cancels
\* and malformed inputs and after the operator has picked another directory.
C22_IndexEqualsLines ==
    save_dir \in DOMAIN fs => capture_count = NumPoses(Own)

\* --------------------------------------------------------------------- C23
\* C23: runs that allocate their sessions side by side, their scan, create
\* and empty-the-pose-log steps interleaved in any order, end up owning
\* distinct session directories, and no run's allocation empties the pose
\* log of a session another run owns.
Owns(r) == runs[r].pc = "ready"

C23_DistinctSessions ==
    /\ [](\A r \in RunIds, q \in RunIds :
            (r # q /\ Owns(r) /\ Owns(q)) => runs[r].dir # runs[q].dir)
    /\ [][\A r \in RunIds, q \in RunIds :
            (r # q /\ Owns(q) /\ RunOpen(r)) =>
                fs'[runs[q].dir].poses = fs[runs[q].dir].poses]_vars

\* --------------------------------------------------------------------- C24
\* C24: the published frame and the pattern-visible flag have a single
\* writer: no step of the dispatcher (capture, pose input, cancel, compute,
\* status, invalid command, quit) changes them, only an iteration of the
\* acquisition loop does, and the acquisition loop never changes
\* sample_index, the image files or the pose logs.
AcqStep == prog = "cli" /\ apc' # apc /\ pc' = pc
DetectionKept == frame' = frame /\ detected' = detected

C24_SingleWriter ==
    [][/\ ~AcqStep => DetectionKept
       /\ AcqStep => (capture_count' = capture_count /\ fs' = fs)]_vars

\* a sample committed by the dispatcher while the acquisition loop is in the
\* middle of an iteration, a later frame published and its flag not yet
C24_CommitBesideLoop ==
    /\ prog = "cli" /\ msg = "sample_ok" /\ capture_count = 1 /\ NumPoses(Own) = 1
    /\ apc = "detect" /\ frame = Frame(FALSE) /\ detected

\* --------------------------------------------------------------------- C25
\* C25: once the acquisition thread has cleared the running flag and released
\* the camera (its emergency-key exit) while the dispatcher waits for a
\* command, a capture command entered afterwards is not accepted and changes
\* no file, even though the last published frame and the pattern-visible
\* flag are still set.
AcqStopped == prog = "cli" /\ apc = "ended" /\ ~running /\ cap.releases > 0

C25_NoCaptureAfterStop ==
    [][\A input \in CommandInputs :
          (pc = "await_cmd" /\ AcqStopped /\ frame # NoFrame /\ detected /\ CmdCapture(input))
              => (pc' \in AwaitingCommandStates \cup LoopEnded /\ fs' = fs)]_vars

====
